---------------------------- MODULE Spec2Model ----------------------------
(***************************************************************************)
(* Model of the rate-limiting decision engine (class RateLimiter, final    *)
(* revision in src/middleware/rateLimitMiddleware.js lines 156-636) with   *)
(* its configuration tables (src/unnamed/part_001) and a shared key-value  *)
(* store that executes the engine's Lua script atomically.                 *)
(*                                                                         *)
(* Numbers.  Token amounts are real numbers in the code.  The model keeps  *)
(* them as exact integers in units of 1/TokenScale of a token; every       *)
(* policy window of the shipped table is 3600 s, so a refill of            *)
(* timePassed * adjustedMax / window tokens is timePassed * adjustedMax    *)
(* units, exactly.  Multipliers (0.5, 2.0, 0.3, 0.6, 1.0) are kept in      *)
(* tenths.  Infinity is a number larger than every other one of the model. *)
(* Wall-clock time is in seconds (Date.now() is clock * 1000 ms).          *)
(***************************************************************************)
EXTENDS Integers, Sequences, FiniteSets, TLC

VARIABLES
    clock,      \* real time in seconds (the store's clock; frontends add Skew)
    ticked,     \* the clock has advanced since the last call was made
    store,      \* shared store: key -> [v, exp]; a key is present while clock < exp
    cache,      \* localCache of each engine: cache key -> [value, ttl]
    hits,       \* analytics.hits of each engine: key -> [allowed, denied, total]
    events,     \* logging.events of each engine: sequence of security events
    options,    \* options and configuration registry (this.config) of the engines
    calls,      \* the checkLimit calls in flight or just returned, one per slot:
                \* position, arguments, locals, returned decision
    started,    \* number of checkLimit calls made so far (bounded by MaxCalls)
    ev          \* the last bucket evaluation: arguments, bucket before and after

vars == <<clock, ticked, store, cache, hits, events, options, calls, started, ev>>

---------------------------------------------------------------------------
(* Bounds of the model *)

MaxCalls == 2
MaxInFlight == 3

Calls == 1..MaxInFlight

---------------------------------------------------------------------------
(* Numbers of the program *)

TokenScale == 3600
Infinity == 1000000000
Undefined == -1

Epoch == 100000          \* Date.now()/1000 at the start; any positive second

CacheTTL == 1000
SlowStartDuration == 86400
MaxLogEvents == 1000
SkewSeconds == 30

SlowStartStages == <<3, 6, 10>>      \* 0.3, 0.6, 1.0 in tenths
FailOpenMultiplier == 10             \* 1.0 in tenths

Engines == {1, 2}
Skew == [e \in Engines |-> IF e = 1 THEN 0 ELSE SkewSeconds]

Users == {"u1", "u2"}
KnownTiers == {"free", "premium", "enterprise"}
RatedEndpoints == {"/api/search", "/api/checkout", "/api/profile"}

Max2(a, b) == IF a >= b THEN a ELSE b
Min2(a, b) == IF a <= b THEN a ELSE b

\* ceil(a / b) for b > 0
CeilDiv(a, b) == -((-a) \div b)

---------------------------------------------------------------------------
(* Configuration registry *)

Policy(w, m, b) == [window |-> w, max |-> m, burst |-> b]

RATE_LIMITS ==
    [t \in KnownTiers |->
        [ep \in RatedEndpoints |->
            CASE t = "free" /\ ep = "/api/search"         -> Policy(3600, 100, 20)
              [] t = "free" /\ ep = "/api/checkout"       -> Policy(3600, 10, 2)
              [] t = "free" /\ ep = "/api/profile"        -> Policy(3600, 50, 10)
              [] t = "premium" /\ ep = "/api/search"      -> Policy(3600, 1000, 100)
              [] t = "premium" /\ ep = "/api/checkout"    -> Policy(3600, 100, 20)
              [] t = "premium" /\ ep = "/api/profile"     -> Policy(3600, 200, 40)
              [] t = "enterprise" /\ ep = "/api/search"   -> Policy(3600, 10000, 1000)
              [] t = "enterprise" /\ ep = "/api/checkout" -> Policy(3600, 1000, 200)
              [] OTHER                                    -> Policy(3600, 1000, 200)]]

\* new RateLimiter(redis): loggingEnabled || false, slowStartEnabled !== false,
\* cacheEnabled !== false, maxLogEvents || 1000, this.config = RATE_LIMITS,
\* slowStartDuration || 86400, slowStartStages || [0.3, 0.6, 1.0]
DefaultOptions ==
    [loggingEnabled |-> FALSE, slowStartEnabled |-> TRUE, cacheEnabled |-> TRUE,
     maxLogEvents |-> MaxLogEvents, config |-> RATE_LIMITS,
     slowStartDuration |-> SlowStartDuration, slowStartStages |-> SlowStartStages]

\* the registry as it was when the engine was constructed
PolicyAtConstruction(tier, endpoint) == RATE_LIMITS[tier][endpoint]

\* this.config[tier][endpoint], read at every call
PolicyFor(tier, endpoint) == options.config[tier][endpoint]

\* multiplier of a region in tenths; a region absent from the table gets DEFAULT
GEO_LIMITS(countryCode) ==
    CASE countryCode = "US" -> 10
      [] countryCode = "EU" -> 10
      [] countryCode = "CN" -> 5
      [] countryCode = "IN" -> 20
      [] OTHER              -> 10

\* this.config[tier] is undefined -> tier = 'free'
EffectiveTier(tier) == IF tier \in KnownTiers THEN tier ELSE "free"

HasEndpointConfig(tier, endpoint) == endpoint \in RatedEndpoints

\* Math.floor(x * multiplier), multiplier in tenths
FloorMul(x, tenths) == (x * tenths) \div 10

AdjustedMax(tier, endpoint, countryCode, ssMult) ==
    FloorMul(FloorMul(PolicyFor(tier, endpoint).max, GEO_LIMITS(countryCode)), ssMult)

AdjustedBurst(tier, endpoint, countryCode, ssMult) ==
    FloorMul(FloorMul(PolicyFor(tier, endpoint).burst, GEO_LIMITS(countryCode)), ssMult)

---------------------------------------------------------------------------
(* Slow-start stage of a marker *)

RECURSIVE StageLoop(_, _, _)
\* for (i = 0; i < stages.length; i++) if (userAge >= stageDuration*(i+1)) stage = i+1 else break
\* stageDuration = duration / stages.length is compared after cross-multiplying
StageLoop(userAge, i, stage) ==
    IF i >= Len(options.slowStartStages) THEN stage
    ELSE IF userAge * Len(options.slowStartStages) >= options.slowStartDuration * (i + 1)
         THEN StageLoop(userAge, i + 1, i + 1)
         ELSE stage

SlowStartStage(userAge) ==
    Min2(StageLoop(userAge, 0, 0), Len(options.slowStartStages) - 1)

\* a lookup that skips the ramp: the last stage whatever the age
SlowStartMultiplierFull(now, createdAt) ==
    options.slowStartStages[Len(options.slowStartStages)]

SlowStartMultiplierAt(now, createdAt) ==
    options.slowStartStages[SlowStartStage(now - createdAt) + 1]


---------------------------------------------------------------------------
(* Shared store: get / setex with a time to live, and the bucket keys *)

Fields == {"tokens", "last_refill", "count", "slowstart"}
Keys == Users \X RatedEndpoints \X Fields
Absent == [v |-> 0, exp |-> 0]

tokenKeyShared(userId, endpoint) == <<"u1", endpoint, "tokens">>
tokenKey(userId, endpoint) == <<userId, endpoint, "tokens">>
lastRefillKey(userId, endpoint) == <<userId, endpoint, "last_refill">>
countKey(userId, endpoint) == <<userId, endpoint, "count">>
slowStartKey(userId, endpoint) == <<userId, endpoint, "slowstart">>

\* a key written with SETEX key ttl is gone once ttl seconds have passed
Present(s, t, k) == t < s[k].exp
Setex(s, t, k, ttl, value) == [s EXCEPT ![k] = [v |-> value, exp |-> t + ttl]]

\* what the three GETs of a bucket return at time t
BucketView(s, t, userId, endpoint) ==
    [hasTokens |-> Present(s, t, tokenKey(userId, endpoint)),
     tokens    |-> s[tokenKey(userId, endpoint)].v,
     hasLast   |-> Present(s, t, lastRefillKey(userId, endpoint)),
     last      |-> s[lastRefillKey(userId, endpoint)].v,
     hasCount  |-> Present(s, t, countKey(userId, endpoint)),
     count     |-> s[countKey(userId, endpoint)].v]

---------------------------------------------------------------------------
(* The Lua script of checkLimit, as the store executes it *)

\* tonumber(redis.call('GET', key)) or default : only a missing key gives the default
LuaNumberOr(has, v, default) == IF has THEN v ELSE default

\* a refill that credits whole tokens only
LuaRefillWholeTokens(tokens, timePassed, adjustedMax, adjustedBurst, window) ==
    Min2(adjustedBurst * TokenScale,
         tokens + ((timePassed * adjustedMax) \div window) * TokenScale)

\* tokens = math.min(adjustedBurst, tokens + (timePassed * adjustedMax) / window)
LuaRefill(tokens, timePassed, adjustedMax, adjustedBurst, window) ==
    Min2(adjustedBurst * TokenScale,
         tokens + ((timePassed * adjustedMax * TokenScale) \div window))

\* the script as the in-process store runs it: a request always costs one token
LuaAllowedCostOne(tokens, count, adjustedMax, cost) ==
    tokens >= 1 * TokenScale /\ count < adjustedMax

\* local allowed = tokens >= cost and count < adjustedMax
LuaAllowed(tokens, count, adjustedMax, cost) ==
    tokens >= cost * TokenScale /\ count < adjustedMax

\* count = count + 1, the script before requests had a cost
LuaCountPlusOne(count, cost) == count + 1

\* count = count + cost
LuaCount(count, cost) == count + cost

LuaScript(b, now, adjustedMax, adjustedBurst, window, cost) ==
    LET tokens0    == LuaNumberOr(b.hasTokens, b.tokens, adjustedBurst * TokenScale)
        lastRefill == LuaNumberOr(b.hasLast, b.last, now)
        count0     == LuaNumberOr(b.hasCount, b.count, 0)
        timePassed == now - lastRefill
        tokens1    == LuaRefill(tokens0, timePassed, adjustedMax, adjustedBurst, window)
        allowed    == LuaAllowed(tokens1, count0, adjustedMax, cost)
        tokens2    == IF allowed THEN tokens1 - cost * TokenScale ELSE tokens1
        count2     == IF allowed THEN LuaCount(count0, cost) ELSE count0
    IN  [allowed   |-> allowed,
         refilled  |-> tokens1,
         tokens    |-> tokens2,
         count     |-> count2,
         remaining |-> Max2(0, tokens2) \div TokenScale]

\* a script that leaves the refill stamp as it is
LuaPersistKeepsStamp(s, t, userId, endpoint, window, now, r) ==
    Setex(Setex(s, t, tokenKey(userId, endpoint), window, r.tokens),
          t, countKey(userId, endpoint), window, r.count)

\* the three SETEX of the script
LuaPersist(s, t, userId, endpoint, window, now, r) ==
    Setex(Setex(Setex(s, t, tokenKey(userId, endpoint), window, r.tokens),
                t, lastRefillKey(userId, endpoint), window, now),
          t, countKey(userId, endpoint), window, r.count)

---------------------------------------------------------------------------
(* Arithmetic of the engine (JavaScript side) *)

\* parseFloat(str) || default, parseInt(str) || default:
\* a missing key (NaN) and the number 0 both give the default
ParseOr(has, v, default) == IF has /\ v # 0 THEN v ELSE default

\* Math.ceil(tokensNeeded * (window / adjustedMax)); window / 0 is Infinity
SecondsFor(tokensNeeded, window, adjustedMax) ==
    IF adjustedMax = 0 THEN Infinity
    ELSE CeilDiv(tokensNeeded * window, adjustedMax * TokenScale)

\* checkLimit, denial: retryAfter before Math.max(retryAfter, 1)
RetryAfterRaw(tokens, requestCost, window, adjustedMax) ==
    IF tokens < requestCost * TokenScale
    THEN SecondsFor(requestCost * TokenScale - tokens, window, adjustedMax)
    ELSE 0

RetryAfter(tokens, requestCost, window, adjustedMax) ==
    Max2(RetryAfterRaw(tokens, requestCost, window, adjustedMax), 1)

\* the fallback's retryAfter without the final Math.max(retryAfter, 1)
FallbackRetryAfterUnclamped(tokens, window, adjustedMax) ==
    IF tokens < 1 * TokenScale
    THEN SecondsFor(1 * TokenScale - tokens, window, adjustedMax)
    ELSE 0

\* checkLimitFallback, denial: the deficit is measured against one token,
\* then Math.max(retryAfter, 1)
FallbackRetryAfter(tokens, window, adjustedMax) ==
    Max2(IF tokens < 1 * TokenScale
         THEN SecondsFor(1 * TokenScale - tokens, window, adjustedMax)
         ELSE 0,
         1)

\* Math.min(adjustedBurst, tokens + refillAmount) of checkLimitFallback
FallbackRefill(tokens, timePassed, adjustedMax, adjustedBurst, window) ==
    Min2(adjustedBurst * TokenScale,
         tokens + ((timePassed * adjustedMax * TokenScale) \div window))

\* tokens >= requestCost && count < adjustedMax
FallbackAllowed(tokens, count, adjustedMax, requestCost) ==
    tokens >= requestCost * TokenScale /\ count < adjustedMax

---------------------------------------------------------------------------
(* Decisions *)

Decision(allowed, remaining, retryAfter, cost) ==
    [returned |-> "decision", allowed |-> allowed, remaining |-> remaining,
     retryAfter |-> retryAfter, cost |-> cost]

\* the refusal a fail-closed engine would return
FailClosed == Decision(FALSE, 0, 1, Undefined)

\* { allowed: true, remaining: Infinity, retryAfter: 0 }
FailOpen == Decision(TRUE, Infinity, 0, Undefined)

NoDecision == [returned |-> "none", allowed |-> FALSE, remaining |-> 0,
               retryAfter |-> 0, cost |-> Undefined]

\* the function ends without a return statement
ReturnsUndefined == [NoDecision EXCEPT !.returned = "undefined"]


---------------------------------------------------------------------------
(* Local cache, analytics and security log of an engine *)

\* Date.now() of engine e, in milliseconds, and Math.floor(Date.now() / 1000)
DateNow(e, t) == (t + Skew[e]) * 1000
NowSeconds(e, t) == DateNow(e, t) \div 1000

CacheKey(userId, endpoint, tier) == <<userId, endpoint, tier>>

\* getFromCache without the expiry test: an entry is a hit for ever
CacheHitForEver(c, key, dateNow) ==
    options.cacheEnabled /\ key \in DOMAIN c

\* getFromCache: a live entry is a hit
CacheHit(c, key, dateNow) ==
    options.cacheEnabled /\ key \in DOMAIN c /\ ~(c[key].ttl < dateNow)

\* getFromCache: the map afterwards (an expired entry is deleted by the lookup)
CacheAfterGet(c, key, dateNow) ==
    IF options.cacheEnabled /\ key \in DOMAIN c /\ c[key].ttl < dateNow
    THEN [k \in DOMAIN c \ {key} |-> c[k]]
    ELSE c

\* setInCache
SetInCache(c, key, value, dateNow) ==
    IF options.cacheEnabled
    THEN (key :> [value |-> value, ttl |-> dateNow + CacheTTL]) @@ c
    ELSE c

\* every decision of the evaluator is cached, the denials too
CacheEveryDecision(c, key, allowed, response, dateNow) ==
    SetInCache(c, key, [response EXCEPT !.allowed = allowed], dateNow)

\* checkLimit after the evaluation: `if (allowed) { ... this.setInCache(cacheKey, response) }`
CacheDecision(c, key, allowed, response, dateNow) ==
    IF allowed THEN SetInCache(c, key, response, dateNow) ELSE c

\* recordAnalyticsHit
RecordAnalyticsHit(h, endpoint, tier, countryCode, allowed) ==
    LET key  == <<endpoint, tier, countryCode>>
        stat == IF key \in DOMAIN h THEN h[key]
                ELSE [allowed |-> 0, denied |-> 0, totalRequests |-> 0]
        new  == [allowed       |-> stat.allowed + (IF allowed THEN 1 ELSE 0),
                 denied        |-> stat.denied + (IF allowed THEN 0 ELSE 1),
                 totalRequests |-> stat.totalRequests + 1]
    IN  (key :> new) @@ h

\* logSecurityEvent: push, then drop the oldest event when over maxEvents
LogSecurityEventKeepsAll(log, event) ==
    IF ~options.loggingEnabled THEN log ELSE Append(log, event)

LogSecurityEvent(log, event) ==
    IF ~options.loggingEnabled THEN log
    ELSE LET pushed == Append(log, event)
         IN  IF Len(pushed) > options.maxLogEvents THEN Tail(pushed) ELSE pushed

NewUserEvent(timestamp, userId, endpoint) ==
    [type |-> "new_user", timestamp |-> timestamp, userId |-> userId,
     endpoint |-> endpoint, tier |-> "", countryCode |-> "",
     slowStartMultiplier |-> Undefined, requestCost |-> Undefined]

DeniedEvent(timestamp, c) ==
    [type |-> "rate_limit_exceeded", timestamp |-> timestamp, userId |-> c.userId,
     endpoint |-> c.endpoint, tier |-> c.etier, countryCode |-> c.countryCode,
     slowStartMultiplier |-> c.ssMult, requestCost |-> c.requestCost]

---------------------------------------------------------------------------
(* State after construction *)

IdleCall ==
    [pc |-> "idle", engine |-> 1, userId |-> "", endpoint |-> "", tier |-> "",
     etier |-> "", countryCode |-> "", requestCost |-> 0,
     ssMult |-> 0, adjustedMax |-> 0, adjustedBurst |-> 0, now |-> 0, window |-> 0,
     createdAt |-> 0, tokens |-> 0, lastRefill |-> 0, count |-> 0,
     storeOps |-> 0, evals |-> 0, path |-> "none", result |-> NoDecision]

NoEval ==
    [kind |-> "none", call |-> 0, now |-> 0, adjustedMax |-> 0, adjustedBurst |-> 0,
     window |-> 0, cost |-> 0,
     pre |-> [hasTokens |-> FALSE, tokens |-> 0, hasLast |-> FALSE, last |-> 0,
              hasCount |-> FALSE, count |-> 0],
     allowed |-> FALSE, tokens |-> 0, count |-> 0, remaining |-> 0]

Init ==
    /\ clock = Epoch
    /\ ticked = FALSE
    /\ store = [k \in Keys |-> Absent]
    /\ cache = [e \in Engines |-> <<>>]
    /\ hits = [e \in Engines |-> <<>>]
    /\ events = [e \in Engines |-> <<>>]
    /\ options = DefaultOptions
    /\ calls = [i \in Calls |-> IdleCall]
    /\ started = 0
    /\ ev = NoEval

---------------------------------------------------------------------------
(* checkLimit: from the call to the first store operation *)

\* the call returns; its locals are dead from here on
Returned(c, decision, path) ==
    [c EXCEPT !.pc = "done", !.result = decision, !.path = path,
              !.now = 0, !.window = 0, !.createdAt = 0,
              !.tokens = 0, !.lastRefill = 0, !.count = 0]

\* after getSlowStartMultiplier: both limits are floored again, now is read,
\* and the script is sent
ToEval(c, t, ssMult) ==
    [c EXCEPT !.pc = "eval",
              !.ssMult = ssMult,
              !.adjustedMax = AdjustedMax(c.etier, c.endpoint, c.countryCode, ssMult),
              !.adjustedBurst = AdjustedBurst(c.etier, c.endpoint, c.countryCode, ssMult),
              !.now = NowSeconds(c.engine, t),
              !.window = PolicyFor(c.etier, c.endpoint).window,
              !.storeOps = @ + 1]

\* checkLimitFallback is entered: the three GETs are sent
ToFallback(c) == [c EXCEPT !.pc = "fb_get_tokens", !.storeOps = @ + 3]

Start(i, e, userId, endpoint, tier, countryCode, requestCost) ==
    LET key   == CacheKey(userId, endpoint, tier)
        probe == tier # "unlimited"
        hit   == probe /\ CacheHit(cache[e], key, DateNow(e, clock))
        etier == EffectiveTier(tier)
        c     == [IdleCall EXCEPT !.engine = e, !.userId = userId, !.endpoint = endpoint,
                                  !.tier = tier, !.etier = etier,
                                  !.countryCode = countryCode,
                                  !.requestCost = requestCost]
    IN  /\ calls[i].pc \in {"idle", "done"}
        /\ started' = started + 1
        /\ cache' = [cache EXCEPT ![e] =
                        IF probe THEN CacheAfterGet(@, key, DateNow(e, clock)) ELSE @]
        /\ IF hit
           THEN /\ calls' = [calls EXCEPT ![i] = Returned(c, cache[e][key].value, "cache")]
                /\ hits' = hits
           ELSE IF ~HasEndpointConfig(etier, endpoint)
           THEN /\ calls' = [calls EXCEPT ![i] = Returned(c, FailOpen, "nopolicy")]
                /\ hits' = hits
           ELSE IF etier = "unlimited"
           THEN /\ calls' = [calls EXCEPT ![i] = Returned(c, FailOpen, "unlimited")]
                /\ hits' = [hits EXCEPT ![e] =
                               RecordAnalyticsHit(@, endpoint, etier, countryCode, TRUE)]
           ELSE IF ~options.slowStartEnabled
           THEN /\ calls' = [calls EXCEPT ![i] = ToEval(c, clock, FailOpenMultiplier)]
                /\ hits' = hits
           ELSE /\ calls' = [calls EXCEPT ![i] =
                                [c EXCEPT !.pc = "ss_get", !.storeOps = @ + 1]]
                /\ hits' = hits
        /\ ticked' = FALSE
        /\ UNCHANGED <<clock, store, events, options, ev>>

---------------------------------------------------------------------------
(* getSlowStartMultiplier *)

\* redis.get(userKey) answers
SlowStartGetOk(i) ==
    LET c   == calls[i]
        k   == slowStartKey(c.userId, c.endpoint)
        now == NowSeconds(c.engine, clock)
    IN  /\ c.pc = "ss_get"
        /\ IF ~Present(store, clock, k)
           THEN calls' = [calls EXCEPT ![i] =
                             [c EXCEPT !.pc = "ss_set", !.createdAt = now,
                                       !.storeOps = @ + 1]]
           ELSE calls' = [calls EXCEPT ![i] =
                             ToEval(c, clock, SlowStartMultiplierAt(now, store[k].v))]
        /\ UNCHANGED <<clock, ticked, store, cache, hits, events, options, ev, started>>

\* redis.get(userKey) throws: caught, the multiplier is 1.0
SlowStartGetFail(i) ==
    /\ calls[i].pc = "ss_get"
    /\ calls' = [calls EXCEPT ![i] = ToEval(@, clock, FailOpenMultiplier)]
    /\ UNCHANGED <<clock, ticked, store, cache, hits, events, options, ev, started>>

\* redis.setex(userKey, duration, now) answers: new_user is logged, stage 0 applies
SlowStartSetOk(i) ==
    LET c == calls[i]
        k == slowStartKey(c.userId, c.endpoint)
    IN  /\ c.pc = "ss_set"
        /\ store' = Setex(store, clock, k, options.slowStartDuration, c.createdAt)
        /\ events' = [events EXCEPT ![c.engine] =
                         LogSecurityEvent(@, NewUserEvent(NowSeconds(c.engine, clock),
                                                          c.userId, c.endpoint))]
        /\ calls' = [calls EXCEPT ![i] = ToEval(c, clock, options.slowStartStages[1])]
        /\ UNCHANGED <<clock, ticked, cache, hits, options, ev, started>>

\* a failed setex that is logged as a new user all the same
SlowStartSetFailLogged(i) ==
    LET c == calls[i]
    IN  /\ c.pc = "ss_set"
        /\ events' = [events EXCEPT ![c.engine] =
                         LogSecurityEvent(@, NewUserEvent(NowSeconds(c.engine, clock),
                                                          c.userId, c.endpoint))]
        /\ calls' = [calls EXCEPT ![i] = ToEval(c, clock, FailOpenMultiplier)]
        /\ UNCHANGED <<clock, ticked, store, cache, hits, options, ev, started>>

\* redis.setex(userKey, ...) throws: caught, the multiplier is 1.0
SlowStartSetFail(i) ==
    /\ calls[i].pc = "ss_set"
    /\ calls' = [calls EXCEPT ![i] = ToEval(@, clock, FailOpenMultiplier)]
    /\ UNCHANGED <<clock, ticked, store, cache, hits, events, options, ev, started>>


---------------------------------------------------------------------------
(* checkLimit: the atomic evaluation and the decision built from it *)

EvalRecord(kind, i, c, b, allowed, tokens, count, remaining) ==
    [kind |-> kind, call |-> i, now |-> c.now, adjustedMax |-> c.adjustedMax,
     adjustedBurst |-> c.adjustedBurst, window |-> c.window, cost |-> c.requestCost,
     pre |-> b, allowed |-> allowed, tokens |-> tokens, count |-> count,
     remaining |-> remaining]

\* redis.eval answers: the script has run as one step of the store
EvalOk(i) ==
    LET c == calls[i]
        b == BucketView(store, clock, c.userId, c.endpoint)
        r == LuaScript(b, c.now, c.adjustedMax, c.adjustedBurst, c.window, c.requestCost)
        response == Decision(TRUE, r.remaining, 0, c.requestCost)
    IN  /\ c.pc = "eval"
        /\ store' = LuaPersist(store, clock, c.userId, c.endpoint, c.window, c.now, r)
        /\ ev' = EvalRecord("lua", i, c, b, r.allowed, r.tokens, r.count, r.remaining)
        /\ hits' = [hits EXCEPT ![c.engine] =
                       RecordAnalyticsHit(@, c.endpoint, c.etier, c.countryCode, r.allowed)]
        /\ cache' = [cache EXCEPT ![c.engine] =
                        CacheDecision(@, CacheKey(c.userId, c.endpoint, c.tier),
                                      r.allowed, response, DateNow(c.engine, clock))]
        /\ IF r.allowed
           THEN /\ events' = events
                /\ calls' = [calls EXCEPT ![i] =
                                Returned([c EXCEPT !.evals = @ + 1], response, "atomic")]
           ELSE /\ events' = [events EXCEPT ![c.engine] =
                                 LogSecurityEvent(@, DeniedEvent(NowSeconds(c.engine, clock), c))]
                /\ calls' = [calls EXCEPT ![i] =
                                [c EXCEPT !.pc = "deny_get", !.evals = @ + 1,
                                          !.storeOps = @ + 1]]
        /\ UNCHANGED <<clock, ticked, options, started>>

\* redis.eval throws: checkLimitFallback takes over
EvalFail(i) ==
    /\ calls[i].pc = "eval"
    /\ calls' = [calls EXCEPT ![i] = ToFallback(@)]
    /\ UNCHANGED <<clock, ticked, store, cache, hits, events, options, ev, started>>

\* redis.eval answers with an empty result: `if (result)` is skipped and
\* checkLimit ends without a return statement
EvalEmpty(i) ==
    /\ calls[i].pc = "eval"
    /\ calls' = [calls EXCEPT ![i] = Returned(@, ReturnsUndefined, "none")]
    /\ UNCHANGED <<clock, ticked, store, cache, hits, events, options, ev, started>>

\* denial: redis.get(tokenKey) answers and retryAfter is computed from it
DenyGetOk(i) ==
    LET c == calls[i]
        k == tokenKey(c.userId, c.endpoint)
        tokens == ParseOr(Present(store, clock, k), store[k].v, 0)
    IN  /\ c.pc = "deny_get"
        /\ calls' = [calls EXCEPT ![i] =
                        Returned(c, Decision(FALSE, 0,
                                             RetryAfter(tokens, c.requestCost, c.window,
                                                        c.adjustedMax),
                                             c.requestCost),
                                 "atomic")]
        /\ UNCHANGED <<clock, ticked, store, cache, hits, events, options, ev, started>>

\* denial: redis.get(tokenKey) throws inside the try of the eval: the catch
\* runs checkLimitFallback
DenyGetFail(i) ==
    /\ calls[i].pc = "deny_get"
    /\ calls' = [calls EXCEPT ![i] = ToFallback(@)]
    /\ UNCHANGED <<clock, ticked, store, cache, hits, events, options, ev, started>>

---------------------------------------------------------------------------
(* checkLimitFallback *)

\* one of the three GETs throws and the call is refused (fail closed)
FallbackGetFailDenies(i) ==
    /\ calls[i].pc \in {"fb_get_tokens", "fb_get_last", "fb_get_count"}
    /\ calls' = [calls EXCEPT ![i] =
                    Returned(@, Decision(FALSE, 0, 1, Undefined), "failopen")]
    /\ UNCHANGED <<clock, ticked, store, cache, hits, events, options, ev, started>>

\* one of the three GETs throws: fail open
FallbackGetFail(i) ==
    /\ calls[i].pc \in {"fb_get_tokens", "fb_get_last", "fb_get_count"}
    /\ calls' = [calls EXCEPT ![i] = Returned(@, FailOpen, "failopen")]
    /\ UNCHANGED <<clock, ticked, store, cache, hits, events, options, ev, started>>

FallbackGetTokens(i) ==
    LET c == calls[i]
        k == tokenKey(c.userId, c.endpoint)
    IN  /\ c.pc = "fb_get_tokens"
        /\ calls' = [calls EXCEPT ![i] =
                        [c EXCEPT !.pc = "fb_get_last",
                                  !.tokens = ParseOr(Present(store, clock, k), store[k].v,
                                                     c.adjustedBurst * TokenScale)]]
        /\ UNCHANGED <<clock, ticked, store, cache, hits, events, options, ev, started>>

FallbackGetLast(i) ==
    LET c == calls[i]
        k == lastRefillKey(c.userId, c.endpoint)
    IN  /\ c.pc = "fb_get_last"
        /\ calls' = [calls EXCEPT ![i] =
                        [c EXCEPT !.pc = "fb_get_count",
                                  !.lastRefill = ParseOr(Present(store, clock, k),
                                                         store[k].v, c.now)]]
        /\ UNCHANGED <<clock, ticked, store, cache, hits, events, options, ev, started>>

\* the last GET answers: refill, admit or deny; an admission sends the three SETEX
FallbackGetCount(i) ==
    LET c == calls[i]
        k == countKey(c.userId, c.endpoint)
        count == ParseOr(Present(store, clock, k), store[k].v, 0)
        tokens == FallbackRefill(c.tokens, c.now - c.lastRefill, c.adjustedMax,
                                 c.adjustedBurst, c.window)
        allowed == FallbackAllowed(tokens, count, c.adjustedMax, c.requestCost)
        tokens2 == IF allowed THEN tokens - c.requestCost * TokenScale ELSE tokens
        count2 == IF allowed THEN count + c.requestCost ELSE count
        remaining == IF allowed THEN Max2(0, tokens2 \div TokenScale) ELSE 0
        b == [hasTokens |-> TRUE, tokens |-> c.tokens, hasLast |-> TRUE,
              last |-> c.lastRefill, hasCount |-> TRUE, count |-> count]
        c2 == [c EXCEPT !.tokens = tokens2, !.count = count2, !.evals = @ + 1]
    IN  /\ c.pc = "fb_get_count"
        /\ ev' = EvalRecord("fallback", i, c, b, allowed, tokens2, count2, remaining)
        /\ IF allowed
           THEN calls' = [calls EXCEPT ![i] =
                             [c2 EXCEPT !.pc = "fb_set_tokens", !.storeOps = @ + 3]]
           ELSE calls' = [calls EXCEPT ![i] =
                             Returned(c2, Decision(FALSE, 0,
                                                   FallbackRetryAfter(tokens, c.window,
                                                                      c.adjustedMax),
                                                   Undefined),
                                      "fallback")]
        /\ UNCHANGED <<clock, ticked, store, cache, hits, events, options, started>>

\* the next SETEX of the admission is applied (ok) or lost (~ok); after the
\* third one the decision is returned
FallbackSetex(i, ok) ==
    LET c == calls[i]
        k == CASE c.pc = "fb_set_tokens" -> tokenKey(c.userId, c.endpoint)
               [] c.pc = "fb_set_last"   -> lastRefillKey(c.userId, c.endpoint)
               [] OTHER                  -> countKey(c.userId, c.endpoint)
        value == CASE c.pc = "fb_set_tokens" -> c.tokens
                   [] c.pc = "fb_set_last"   -> c.now
                   [] OTHER                  -> c.count
    IN  /\ c.pc \in {"fb_set_tokens", "fb_set_last", "fb_set_count"}
        /\ store' = IF ok THEN Setex(store, clock, k, c.window, value) ELSE store
        /\ calls' = [calls EXCEPT ![i] =
                        CASE c.pc = "fb_set_tokens" -> [c EXCEPT !.pc = "fb_set_last"]
                          [] c.pc = "fb_set_last"   -> [c EXCEPT !.pc = "fb_set_count"]
                          [] OTHER ->
                               Returned(c, Decision(TRUE, Max2(0, c.tokens \div TokenScale),
                                                    0, Undefined),
                                        "fallback")]
        /\ UNCHANGED <<clock, ticked, cache, hits, events, options, ev, started>>

FallbackSetexOk(i) == FallbackSetex(i, TRUE)
FallbackSetexFail(i) == FallbackSetex(i, FALSE)

---------------------------------------------------------------------------
(* Time *)

TickSteps == {2, 600}

\* no call is in flight
Quiet == \A j \in Calls : calls[j].pc \in {"idle", "done"}

\* d seconds pass, once between two calls
Tick(d) ==
    /\ ~ticked
    /\ clock' = clock + d
    /\ ticked' = TRUE
    /\ UNCHANGED <<store, cache, hits, events, options, calls, ev, started>>

---------------------------------------------------------------------------
(* The engine on two frontends, one bucket, with every store failure *)

\* calls are made one after the other; a returned call's slot is used again
StartAny(i) ==
    /\ Quiet
    /\ i = 1
    /\ started < MaxCalls
    /\ \E e \in Engines, requestCost \in {1, 5} :
          Start(i, e, "u1", "/api/checkout", "free", "IN", requestCost)

\* time passes between two calls (before the first call and after the last
\* one it changes nothing a call observes)
TickBetween(d) ==
    /\ Quiet
    /\ 0 < started /\ started < MaxCalls
    /\ Tick(d)

Next ==
    \/ \E i \in Calls :
          \/ StartAny(i)
          \/ SlowStartGetOk(i)
          \/ SlowStartGetFail(i)
          \/ SlowStartSetOk(i)
          \/ SlowStartSetFail(i)
          \/ EvalOk(i)
          \/ EvalFail(i)
          \/ EvalEmpty(i)
          \/ DenyGetOk(i)
          \/ DenyGetFail(i)
          \/ FallbackGetFail(i)
          \/ FallbackGetTokens(i)
          \/ FallbackGetLast(i)
          \/ FallbackGetCount(i)
          \/ FallbackSetexOk(i)
          \/ FallbackSetexFail(i)
    \/ \E d \in TickSteps : TickBetween(d)

Spec == Init /\ [][Next]_vars


---------------------------------------------------------------------------
(* One frontend, one policy, calls in flight together, a store that answers *)

\* every call of a run keeps its slot: slot i holds the i-th call made
StartBurst(i) ==
    /\ calls[i].pc = "idle"
    /\ \A j \in Calls : j < i => calls[j].pc # "idle"
    /\ \E requestCost \in {1, 2, 11} :
          Start(i, 1, "u1", "/api/profile", "free", "US", requestCost)

NextBurst ==
    \E i \in Calls :
        \/ StartBurst(i)
        \/ SlowStartGetOk(i)
        \/ SlowStartSetOk(i)
        \/ EvalOk(i)
        \/ DenyGetOk(i)

SpecBurst == Init /\ [][NextBurst]_vars

---------------------------------------------------------------------------
(* Sequential identical calls with no time passing, a store that answers *)

SeqInputs ==
    {<<"free", "/api/checkout", "IN">>, <<"free", "/api/profile", "CN">>,
     <<"premium", "/api/checkout", "CN">>, <<"unlimited", "/api/checkout", "IN">>,
     <<"unlimited", "/api/search", "US">>}

\* the first call picks the arguments, the later calls repeat them
StartSeq(i) ==
    /\ Quiet
    /\ calls[i].pc = "idle"
    /\ \A j \in Calls : j < i => calls[j].pc # "idle"
    /\ IF i = 1
       THEN \E e \in Engines, in \in SeqInputs, requestCost \in {1, 5} :
               Start(i, e, "u1", in[2], in[1], in[3], requestCost)
       ELSE Start(i, calls[1].engine, calls[1].userId, calls[1].endpoint, calls[1].tier,
                  calls[1].countryCode, calls[1].requestCost)

NextSeq ==
    \E i \in Calls :
        \/ StartSeq(i)
        \/ SlowStartGetOk(i)
        \/ SlowStartSetOk(i)
        \/ EvalOk(i)
        \/ DenyGetOk(i)

SpecSeq == Init /\ [][NextSeq]_vars

---------------------------------------------------------------------------
(* The Lua script applied once to a bucket and an argument tuple *)

EvalTokens == {0, 1800, 3600, 7200, 14400}
EvalCounts == {0, 1, 4, 6}
EvalCosts == {1, 2, 5}
EvalLimits == {<<0, 0>>, <<1, 0>>, <<6, 1>>, <<20, 4>>, <<50, 10>>}
EvalElapsed == {-30, 0, 2, 600}

InitEval ==
    /\ clock = Epoch
    /\ ticked = FALSE
    /\ cache = [e \in Engines |-> <<>>]
    /\ hits = [e \in Engines |-> <<>>]
    /\ events = [e \in Engines |-> <<>>]
    /\ options = DefaultOptions
    /\ started = 1
    /\ ev = NoEval
    /\ \E fresh \in BOOLEAN, tokens \in EvalTokens, count \in EvalCounts,
          elapsed \in EvalElapsed, limits \in EvalLimits, cost \in EvalCosts :
          /\ fresh => tokens = 0 /\ count = 0 /\ elapsed = 0
          /\ store = IF fresh THEN [k \in Keys |-> Absent]
                     ELSE LuaPersist([k \in Keys |-> Absent], Epoch - 1, "u1",
                                     "/api/checkout", 3600, Epoch - elapsed,
                                     [tokens |-> tokens, count |-> count])
          /\ calls = [i \in Calls |->
                        IF i = 1
                        THEN [IdleCall EXCEPT
                                 !.pc = "eval", !.userId = "u1",
                                 !.endpoint = "/api/checkout", !.tier = "free",
                                 !.etier = "free", !.countryCode = "IN",
                                 !.requestCost = cost, !.ssMult = 10,
                                 !.adjustedMax = limits[1], !.adjustedBurst = limits[2],
                                 !.now = Epoch, !.window = 3600, !.storeOps = 1]
                        ELSE IdleCall]

\* the script answers, or the eval throws and checkLimitFallback evaluates the
\* same bucket with the same arguments
NextEval ==
    \/ EvalOk(1)
    \/ DenyGetOk(1)
    \/ EvalFail(1)
    \/ FallbackGetTokens(1)
    \/ FallbackGetLast(1)
    \/ FallbackGetCount(1)
    \/ FallbackSetexOk(1)

SpecEval == InitEval /\ [][NextEval]_vars

---------------------------------------------------------------------------
(* Engines constructed with loggingEnabled: true *)

LoggingOptions == [DefaultOptions EXCEPT !.loggingEnabled = TRUE]

InitLogging ==
    /\ clock = Epoch
    /\ ticked = FALSE
    /\ store = [k \in Keys |-> Absent]
    /\ cache = [e \in Engines |-> <<>>]
    /\ hits = [e \in Engines |-> <<>>]
    /\ events = [e \in Engines |-> <<>>]
    /\ options = LoggingOptions
    /\ calls = [i \in Calls |-> IdleCall]
    /\ started = 0
    /\ ev = NoEval

\* sequential identical calls, the audit log on, a store that answers
SpecSlowStart == InitLogging /\ [][NextSeq]_vars

\* an endpoint RATE_LIMITS has no entry for
UnratedEndpoint == "/api/health"

\* sequential calls of one frontend for a rated and an unrated endpoint;
\* every call keeps its slot
StartAudit(i) ==
    /\ Quiet
    /\ started < MaxCalls
    /\ calls[i].pc = "idle"
    /\ \A j \in Calls : j < i => calls[j].pc # "idle"
    /\ \E endpoint \in {"/api/checkout", UnratedEndpoint}, requestCost \in {1, 5} :
          Start(i, 1, "u1", endpoint, "free", "IN", requestCost)

\* the audit log on, every store failure
NextAudit ==
    \E i \in Calls :
        \/ StartAudit(i)
        \/ SlowStartGetOk(i)
        \/ SlowStartGetFail(i)
        \/ SlowStartSetOk(i)
        \/ SlowStartSetFail(i)
        \/ EvalOk(i)
        \/ EvalFail(i)
        \/ EvalEmpty(i)
        \/ DenyGetOk(i)
        \/ DenyGetFail(i)
        \/ FallbackGetFail(i)
        \/ FallbackGetTokens(i)
        \/ FallbackGetLast(i)
        \/ FallbackGetCount(i)
        \/ FallbackSetexOk(i)
        \/ FallbackSetexFail(i)

SpecAudit == InitLogging /\ [][NextAudit]_vars

---------------------------------------------------------------------------
(* Sequential calls of one frontend with 'free' and with a tier the registry
   does not list, a store that answers, no time passing *)

UnknownTier == "basic"

StartTiers(i) ==
    /\ Quiet
    /\ calls[i].pc = "idle"
    /\ \A j \in Calls : j < i => calls[j].pc # "idle"
    /\ \E tier \in {"free", UnknownTier}, requestCost \in {1, 5} :
          Start(i, 1, "u1", "/api/checkout", tier, "IN", requestCost)

NextTiers ==
    \E i \in Calls :
        \/ StartTiers(i)
        \/ SlowStartGetOk(i)
        \/ SlowStartSetOk(i)
        \/ EvalOk(i)
        \/ DenyGetOk(i)

SpecTiers == Init /\ [][NextTiers]_vars

---------------------------------------------------------------------------
(* Concurrent calls of one frontend for several identities and endpoints, a
   store that answers, no time passing *)

IsolationPairs ==
    {<<"u1", "/api/checkout">>, <<"u2", "/api/checkout">>, <<"u1", "/api/profile">>}

\* a checkout costs one token, a profile call two
IsolationCost(endpoint) == IF endpoint = "/api/checkout" THEN 1 ELSE 2

StartIsolation(i) ==
    /\ calls[i].pc = "idle"
    /\ \A j \in Calls : j < i => calls[j].pc # "idle"
    /\ \E pair \in IsolationPairs :
          Start(i, 1, pair[1], pair[2], "free", "IN", IsolationCost(pair[2]))

NextIsolation ==
    \E i \in Calls :
        \/ StartIsolation(i)
        \/ SlowStartGetOk(i)
        \/ SlowStartSetOk(i)
        \/ EvalOk(i)
        \/ DenyGetOk(i)

SpecIsolation == Init /\ [][NextIsolation]_vars

---------------------------------------------------------------------------
(* logSecurityEvent applied to a log of small capacity *)

LogSizes == {1, 2, 3}

InitLog ==
    /\ clock = Epoch
    /\ ticked = FALSE
    /\ store = [k \in Keys |-> Absent]
    /\ cache = [e \in Engines |-> <<>>]
    /\ hits = [e \in Engines |-> <<>>]
    /\ events = [e \in Engines |-> <<>>]
    /\ \E size \in LogSizes :
          options = [LoggingOptions EXCEPT !.maxLogEvents = size]
    /\ calls = [i \in Calls |-> IdleCall]
    /\ started = 0
    /\ ev = NoEval

\* one call of logSecurityEvent on the first frontend
LogAppend(userId, endpoint) ==
    /\ started < MaxCalls + MaxInFlight
    /\ started' = started + 1
    /\ events' = [events EXCEPT
                    ![1] = LogSecurityEvent(@, NewUserEvent(DateNow(1, clock), userId, endpoint))]
    /\ UNCHANGED <<clock, ticked, store, cache, hits, options, calls, ev>>

NextLog ==
    \E userId \in Users, endpoint \in {"/api/checkout", "/api/profile"} :
        LogAppend(userId, endpoint)

SpecLog == InitLog /\ [][NextLog]_vars

---------------------------------------------------------------------------
(* The registry is written between calls: limiter.config[tier][endpoint] = {...} *)

\* the policy written by the configuration-change test, and the original one
NewPolicies == {Policy(3600, 30, 5)}

\* limiter.config[tier][endpoint] = policy, while no call is in flight
SetPolicy(tier, endpoint, policy) ==
    /\ Quiet
    /\ options.config[tier][endpoint] # policy
    /\ options' = [options EXCEPT !.config[tier][endpoint] = policy]
    /\ UNCHANGED <<clock, ticked, store, cache, hits, events, calls, started, ev>>

StartConfig(i) ==
    /\ Quiet
    /\ calls[i].pc = "idle"
    /\ \A j \in Calls : j < i => calls[j].pc # "idle"
    /\ \E endpoint \in {"/api/checkout", "/api/profile"} :
          Start(i, 1, "u1", endpoint, "free", "US", 1)

\* time passes between two calls
TickConfig(d) ==
    /\ Quiet
    /\ started > 0
    /\ \E j \in Calls : calls[j].pc = "idle"
    /\ Tick(d)

NextConfig ==
    \/ \E i \in Calls :
          \/ StartConfig(i)
          \/ SlowStartGetOk(i)
          \/ SlowStartSetOk(i)
          \/ EvalOk(i)
          \/ DenyGetOk(i)
    \/ \E endpoint \in {"/api/checkout", "/api/profile"} :
          \E policy \in NewPolicies \cup {RATE_LIMITS["free"][endpoint]} :
             SetPolicy("free", endpoint, policy)
    \/ \E d \in TickSteps : TickConfig(d)

SpecConfig == InitLogging /\ [][NextConfig]_vars

---------------------------------------------------------------------------
(* Sequential calls of one frontend for one bucket with time passing between
   them, a store that answers *)

StartRefill(i) ==
    /\ Quiet
    /\ calls[i].pc = "idle"
    /\ \A j \in Calls : j < i => calls[j].pc # "idle"
    /\ \E requestCost \in {1, 5} :
          Start(i, 1, "u1", "/api/checkout", "free", "IN", requestCost)

TickRefill(d) ==
    /\ Quiet
    /\ started > 0
    /\ \E j \in Calls : calls[j].pc = "idle"
    /\ Tick(d)

NextRefill ==
    \/ \E i \in Calls :
          \/ StartRefill(i)
          \/ SlowStartGetOk(i)
          \/ SlowStartSetOk(i)
          \/ EvalOk(i)
          \/ DenyGetOk(i)
    \/ \E d \in TickSteps : TickRefill(d)

SpecRefill == Init /\ [][NextRefill]_vars

---------------------------------------------------------------------------
(* Concurrent calls of one frontend for one bucket; redis.eval answers or
   throws, the commands of checkLimitFallback answer; no time passing *)

StartRace(i) ==
    /\ calls[i].pc = "idle"
    /\ \A j \in Calls : j < i => calls[j].pc # "idle"
    /\ Start(i, 1, "u1", "/api/profile", "free", "US", 2)

NextRace ==
    \E i \in Calls :
        \/ StartRace(i)
        \/ SlowStartGetOk(i)
        \/ SlowStartSetOk(i)
        \/ EvalOk(i)
        \/ EvalFail(i)
        \/ DenyGetOk(i)
        \/ FallbackGetTokens(i)
        \/ FallbackGetLast(i)
        \/ FallbackGetCount(i)
        \/ FallbackSetexOk(i)

SpecRace == Init /\ [][NextRace]_vars

---------------------------------------------------------------------------
(* getSlowStartMultiplier on a stored marker, for several stage sequences,
   durations and ages; the marker may have been written by the other frontend *)

StageSeqs == {<<10>>, <<5, 10>>, <<3, 6, 10>>, <<2, 4, 7, 10>>, <<10, 3>>}
StageDurations == {60, SlowStartDuration}
MarkerAges == {0, 10, 15, 20, 29, 30, 45, 59, 28800, 57600, 86399}

InitStages ==
    /\ clock = Epoch
    /\ ticked = FALSE
    /\ cache = [e \in Engines |-> <<>>]
    /\ hits = [e \in Engines |-> <<>>]
    /\ events = [e \in Engines |-> <<>>]
    /\ calls = [i \in Calls |-> IdleCall]
    /\ started = 0
    /\ ev = NoEval
    /\ \E stages \in StageSeqs, duration \in StageDurations :
          options = [DefaultOptions EXCEPT !.slowStartStages = stages,
                                           !.slowStartDuration = duration]
    /\ \E age \in MarkerAges, writer \in Engines :
          store = Setex([k \in Keys |-> Absent], Epoch - age,
                        slowStartKey("u1", "/api/checkout"), options.slowStartDuration,
                        NowSeconds(writer, Epoch - age))

StartStages(i) ==
    /\ i = 1
    /\ calls[i].pc = "idle"
    /\ \E e \in Engines : Start(i, e, "u1", "/api/checkout", "free", "IN", 1)

NextStages ==
    \E i \in Calls :
        \/ StartStages(i)
        \/ SlowStartGetOk(i)
        \/ SlowStartSetOk(i)

SpecStages == InitStages /\ [][NextStages]_vars

---------------------------------------------------------------------------
(* Concurrent calls of the two frontends for one new identity, a store that
   answers, no time passing *)

StartMarker(i) ==
    /\ calls[i].pc = "idle"
    /\ \A j \in Calls : j < i => calls[j].pc # "idle"
    /\ \E e \in Engines : Start(i, e, "u1", "/api/checkout", "free", "IN", 1)

NextMarker ==
    \E i \in Calls :
        \/ StartMarker(i)
        \/ SlowStartGetOk(i)
        \/ SlowStartSetOk(i)
        \/ EvalOk(i)
        \/ DenyGetOk(i)

SpecMarker == InitLogging /\ [][NextMarker]_vars

---------------------------------------------------------------------------
(* The limits handed to the evaluator, for several policies written to the
   registry, regions and ages of the slow-start marker *)

LimitMaxes == {7, 10, 15, 100}
LimitBursts == {2, 5, 7}
LimitAges == {0, 28800, 57600}
LimitRegions == {"US", "CN", "IN", "BR"}

InitLimits ==
    /\ clock = Epoch
    /\ ticked = FALSE
    /\ cache = [e \in Engines |-> <<>>]
    /\ hits = [e \in Engines |-> <<>>]
    /\ events = [e \in Engines |-> <<>>]
    /\ calls = [i \in Calls |-> IdleCall]
    /\ started = 0
    /\ ev = NoEval
    /\ \E max \in LimitMaxes, burst \in LimitBursts :
          options = [DefaultOptions EXCEPT
                        !.config["free"]["/api/checkout"] = Policy(3600, max, burst)]
    /\ \E age \in LimitAges :
          store = Setex([k \in Keys |-> Absent], Epoch - age,
                        slowStartKey("u1", "/api/checkout"), SlowStartDuration,
                        Epoch - age)

StartLimits(i) ==
    /\ i = 1
    /\ calls[i].pc = "idle"
    /\ \E countryCode \in LimitRegions :
          Start(i, 1, "u1", "/api/checkout", "free", countryCode, 1)

NextLimits ==
    \E i \in Calls :
        \/ StartLimits(i)
        \/ SlowStartGetOk(i)

SpecLimits == InitLimits /\ [][NextLimits]_vars

---------------------------------------------------------------------------
(* A caller that repeats its call, at once or after waiting the retryAfter
   of the denial it got; one frontend, a store that answers *)

RetryInputs ==
    {<<"/api/checkout", "IN">>, <<"/api/checkout", "CN">>,
     <<"/api/profile", "IN">>, <<"/api/profile", "CN">>}

StartRetry(i) ==
    /\ Quiet
    /\ calls[i].pc = "idle"
    /\ \A j \in Calls : j < i => calls[j].pc # "idle"
    /\ IF i = 1
       THEN \E in \in RetryInputs, requestCost \in {1, 2, 5} :
               Start(i, 1, "u1", in[1], "free", in[2], requestCost)
       ELSE Start(i, 1, "u1", calls[1].endpoint, "free", calls[1].countryCode,
                  calls[1].requestCost)

\* the caller waits the retryAfter seconds of the denial it has just got
WaitRetryAfter(i) ==
    /\ Quiet
    /\ calls[i].pc = "done"
    /\ i < MaxInFlight /\ calls[i + 1].pc = "idle"
    /\ ~calls[i].result.allowed
    /\ calls[i].result.retryAfter < Infinity
    /\ Tick(calls[i].result.retryAfter)

NextRetry ==
    \E i \in Calls :
        \/ StartRetry(i)
        \/ SlowStartGetOk(i)
        \/ SlowStartSetOk(i)
        \/ EvalOk(i)
        \/ DenyGetOk(i)
        \/ WaitRetryAfter(i)

SpecRetry == Init /\ [][NextRetry]_vars

---------------------------------------------------------------------------
(* clearUserCache on a cache that holds admitted decisions of each of
   several identities; cache keys as the strings the engine builds *)

ClearUsers == {"u1", "u12", "u2", "u21"}
ClearKeys == ClearUsers \X {"/api/checkout", "/api/profile"} \X {"free"}

\* the characters of the strings that occur in these cache keys
Chars(str) ==
    CASE str = "check" -> <<"c", "h", "e", "c", "k">>
      [] str = "u1" -> <<"u", "1">>
      [] str = "u12" -> <<"u", "1", "2">>
      [] str = "u2" -> <<"u", "2">>
      [] str = "u21" -> <<"u", "2", "1">>
      [] str = "/api/checkout" -> <<"/", "a", "p", "i", "/", "c", "h", "e", "c", "k", "o", "u", "t">>
      [] str = "/api/profile" -> <<"/", "a", "p", "i", "/", "p", "r", "o", "f", "i", "l", "e">>
      [] str = "free" -> <<"f", "r", "e", "e">>

\* `check:${userId}:${endpoint}:${tier}`
CacheKeyString(key) ==
    Chars("check") \o <<":">> \o Chars(key[1]) \o <<":">> \o Chars(key[2])
        \o <<":">> \o Chars(key[3])

\* String.prototype.includes
Includes(hay, needle) ==
    \E k \in 0..(Len(hay) - Len(needle)) : SubSeq(hay, k + 1, k + Len(needle)) = needle

InitClear ==
    /\ clock = Epoch
    /\ ticked = FALSE
    /\ store = [k \in Keys |-> Absent]
    /\ hits = [e \in Engines |-> <<>>]
    /\ events = [e \in Engines |-> <<>>]
    /\ options = DefaultOptions
    /\ calls = [i \in Calls |-> IdleCall]
    /\ started = 0
    /\ ev = NoEval
    /\ \E held \in SUBSET ClearKeys :
          /\ \A userId \in ClearUsers : \E key \in held : key[1] = userId
          /\ cache = [e \in Engines |->
                     IF e = 1
                     THEN [key \in held |->
                             [value |-> Decision(TRUE, 0, 0, 1),
                              ttl |-> DateNow(1, Epoch) + CacheTTL]]
                     ELSE <<>>]

\* clearUserCache(userId): every key that includes userId is deleted
ClearUserCache(e, userId) ==
    /\ cache' = [cache EXCEPT ![e] =
                    [key \in {k \in DOMAIN @ :
                                 ~Includes(CacheKeyString(k), Chars(userId))} |-> @[key]]]
    /\ UNCHANGED <<clock, ticked, store, hits, events, options, calls, started, ev>>

NextClear == \E userId \in ClearUsers : ClearUserCache(1, userId)

SpecClear == InitClear /\ [][NextClear]_vars

---------------------------------------------------------------------------
(* The in-process store (MockRedis) running the script of checkLimit *)

\* this.data.set(key, value): the in-process store keeps no expiry
MockSet(s, k, value) == [s EXCEPT ![k] = [v |-> value, exp |-> Infinity]]

\* executeRateLimitScript(keys, argv): argv is destructured into four names,
\* the fifth argument (the cost) is not read; a stored 0 reads as missing
executeRateLimitScript(b, now, adjustedMax, adjustedBurst, window) ==
    LET tokens0    == ParseOr(b.hasTokens, b.tokens, adjustedBurst * TokenScale)
        lastRefill == ParseOr(b.hasLast, b.last, now)
        count0     == ParseOr(b.hasCount, b.count, 0)
        timePassed == now - lastRefill
        tokens1    == Min2(adjustedBurst * TokenScale,
                           tokens0 + ((timePassed * adjustedMax * TokenScale) \div window))
        allowed    == tokens1 >= 1 * TokenScale /\ count0 < adjustedMax
        tokens2    == IF allowed THEN tokens1 - 1 * TokenScale ELSE tokens1
        count2     == IF allowed THEN count0 + 1 ELSE count0
    IN  [allowed   |-> allowed,
         refilled  |-> tokens1,
         tokens    |-> tokens2,
         count     |-> count2,
         remaining |-> Max2(0, tokens2 \div TokenScale)]

\* the three data.set of executeRateLimitScript
MockPersist(s, userId, endpoint, now, r) ==
    MockSet(MockSet(MockSet(s, tokenKey(userId, endpoint), r.tokens),
                    lastRefillKey(userId, endpoint), now),
            countKey(userId, endpoint), r.count)

\* a bucket the in-process store holds (or does not hold yet) and one call
\* of checkLimit about to send the script with an argument tuple
InitMock ==
    /\ clock = Epoch
    /\ ticked = FALSE
    /\ cache = [e \in Engines |-> <<>>]
    /\ hits = [e \in Engines |-> <<>>]
    /\ events = [e \in Engines |-> <<>>]
    /\ options = DefaultOptions
    /\ started = 1
    /\ ev = NoEval
    /\ \E fresh \in BOOLEAN, tokens \in EvalTokens, count \in EvalCounts,
          elapsed \in EvalElapsed, limits \in EvalLimits, cost \in EvalCosts :
          /\ fresh => tokens = 0 /\ count = 0 /\ elapsed = 0
          /\ store = IF fresh THEN [k \in Keys |-> Absent]
                     ELSE MockPersist([k \in Keys |-> Absent], "u1", "/api/checkout",
                                      Epoch - elapsed,
                                      [tokens |-> tokens, count |-> count])
          /\ calls = [i \in Calls |->
                        IF i = 1
                        THEN [IdleCall EXCEPT
                                 !.pc = "eval", !.userId = "u1",
                                 !.endpoint = "/api/checkout", !.tier = "free",
                                 !.etier = "free", !.countryCode = "IN",
                                 !.requestCost = cost, !.ssMult = 10,
                                 !.adjustedMax = limits[1], !.adjustedBurst = limits[2],
                                 !.now = Epoch, !.window = 3600, !.storeOps = 1]
                        ELSE IdleCall]

\* redis.eval answered by MockRedis.eval: the script text contains
\* 'adjustedBurst', so executeRateLimitScript runs on the keys and the
\* arguments after them
MockEvalOk(i) ==
    LET c == calls[i]
        b == BucketView(store, clock, c.userId, c.endpoint)
        r == executeRateLimitScript(b, c.now, c.adjustedMax, c.adjustedBurst, c.window)
        response == Decision(TRUE, r.remaining, 0, c.requestCost)
    IN  /\ c.pc = "eval"
        /\ store' = MockPersist(store, c.userId, c.endpoint, c.now, r)
        /\ ev' = EvalRecord("mock", i, c, b, r.allowed, r.tokens, r.count, r.remaining)
        /\ hits' = [hits EXCEPT ![c.engine] =
                       RecordAnalyticsHit(@, c.endpoint, c.etier, c.countryCode, r.allowed)]
        /\ cache' = [cache EXCEPT ![c.engine] =
                        CacheDecision(@, CacheKey(c.userId, c.endpoint, c.tier),
                                      r.allowed, response, DateNow(c.engine, clock))]
        /\ IF r.allowed
           THEN /\ events' = events
                /\ calls' = [calls EXCEPT ![i] =
                                Returned([c EXCEPT !.evals = @ + 1], response, "atomic")]
           ELSE /\ events' = [events EXCEPT ![c.engine] =
                                 LogSecurityEvent(@, DeniedEvent(NowSeconds(c.engine, clock), c))]
                /\ calls' = [calls EXCEPT ![i] =
                                [c EXCEPT !.pc = "deny_get", !.evals = @ + 1,
                                          !.storeOps = @ + 1]]
        /\ UNCHANGED <<clock, ticked, options, started>>

NextMock ==
    \/ MockEvalOk(1)
    \/ DenyGetOk(1)

SpecMock == InitMock /\ [][NextMock]_vars

---------------------------------------------------------------------------
(* Properties *)

\* C1: a call with tier 'unlimited' performs no store operation at any point
\* and returns allowed = true, remaining = unbounded, retry_after = 0.
UnlimitedBypassesStore ==
    \A i \in Calls :
        calls[i].tier = "unlimited" =>
            /\ calls[i].storeOps = 0
            /\ calls[i].pc = "done" =>
                  /\ calls[i].result.returned = "decision"
                  /\ calls[i].result.allowed
                  /\ calls[i].result.remaining = Infinity
                  /\ calls[i].result.retryAfter = 0

\* C2: whatever the store answers (success, failure, empty result), a call
\* that has ended has returned a decision record.
AlwaysReturnsDecision ==
    \A i \in Calls :
        calls[i].pc = "done" => calls[i].result.returned = "decision"

\* C3: the atomic evaluator admits iff min(adjusted_burst, tokens + elapsed *
\* adjusted_max / window) >= cost and count < adjusted_max, absent values read
\* as adjusted_burst, now and 0; on admission the stored tokens are the
\* refilled tokens minus cost and the stored count is the old count plus cost.
EvaluatorAdmitsIffAffordable ==
    ev.kind = "lua" =>
        LET t0    == IF ev.pre.hasTokens THEN ev.pre.tokens
                     ELSE ev.adjustedBurst * TokenScale
            lr    == IF ev.pre.hasLast THEN ev.pre.last ELSE ev.now
            n0    == IF ev.pre.hasCount THEN ev.pre.count ELSE 0
            grown == t0 + (((ev.now - lr) * ev.adjustedMax * TokenScale) \div ev.window)
            t1    == IF grown < ev.adjustedBurst * TokenScale THEN grown
                     ELSE ev.adjustedBurst * TokenScale
        IN  /\ ev.allowed <=> (t1 >= ev.cost * TokenScale /\ n0 < ev.adjustedMax)
            /\ ev.allowed =>
                  /\ store[tokenKey("u1", "/api/checkout")].v = t1 - ev.cost * TokenScale
                  /\ store[countKey("u1", "/api/checkout")].v = n0 + ev.cost

\* C3 witness: a cost-5 request is admitted on a stored bucket after a refill
EvaluatorAdmitsCostFive ==
    /\ ev.kind = "lua"
    /\ ev.allowed
    /\ ev.cost = 5
    /\ ev.pre.hasTokens
    /\ ev.pre.last < ev.now

\* C4: once all concurrent calls of a run have returned, the stored count is
\* the sum of the costs of the calls the atomic evaluator admitted, and the
\* stored tokens are the burst minus that sum.
SerializedCharges ==
    LET RECURSIVE Admitted(_)
        Admitted(n) ==
            IF n = 0 THEN 0
            ELSE Admitted(n - 1)
                 + (IF calls[n].pc = "done" /\ calls[n].path = "atomic"
                       /\ calls[n].result.allowed
                    THEN calls[n].requestCost ELSE 0)
        burst == AdjustedBurst("free", "/api/profile", "US", SlowStartStages[1])
    IN  (Quiet /\ started > 0) =>
            /\ Present(store, clock, countKey("u1", "/api/profile"))
            /\ store[countKey("u1", "/api/profile")].v = Admitted(MaxInFlight)
            /\ store[tokenKey("u1", "/api/profile")].v =
                  (burst - Admitted(MaxInFlight)) * TokenScale

\* C4 witness: every call of the run has returned, two of them were admitted
\* by the evaluator (they overlapped: neither saw the other's cache entry)
\* and one of them cost two tokens
TwoOverlappingAdmissions ==
    /\ \A i \in Calls : calls[i].pc = "done"
    /\ \E i, j \in Calls :
          /\ i # j
          /\ calls[i].path = "atomic" /\ calls[i].result.allowed
          /\ calls[j].path = "atomic" /\ calls[j].result.allowed
          /\ calls[i].requestCost = 2

\* C5: with no time passing, the costs of the calls answered allowed = true
\* add up to at most adjusted_max + adjusted_burst.
AdmittedWithinBudget ==
    LET RECURSIVE Answered(_)
        Answered(n) ==
            IF n = 0 THEN 0
            ELSE Answered(n - 1)
                 + (IF calls[n].pc = "done" /\ calls[n].result.allowed
                    THEN calls[n].requestCost ELSE 0)
    IN  Answered(MaxInFlight)
           <= AdjustedMax("free", "/api/profile", "US", SlowStartStages[1])
              + AdjustedBurst("free", "/api/profile", "US", SlowStartStages[1])

\* C6: after an evaluation (atomic or fallback) the tokens it leaves and the
\* remaining it reports are between 0 and the adjusted_burst of the evaluation.
TokensWithinBurst ==
    ev.kind # "none" =>
        /\ 0 <= ev.tokens /\ ev.tokens <= ev.adjustedBurst * TokenScale
        /\ 0 <= ev.remaining /\ ev.remaining <= ev.adjustedBurst

\* C7: an evaluation whose clock reading is earlier than the stored
\* last_refill behaves as with elapsed time 0: the refill takes no token
\* away, the tokens stay >= 0, and a request admissible at elapsed 0 is admitted.
BackwardSkewIsZeroElapsed ==
    (ev.kind = "lua" /\ ev.pre.hasLast /\ ev.now < ev.pre.last) =>
        LET t0     == IF ev.pre.hasTokens THEN ev.pre.tokens
                      ELSE ev.adjustedBurst * TokenScale
            n0     == IF ev.pre.hasCount THEN ev.pre.count ELSE 0
            t1     == IF t0 < ev.adjustedBurst * TokenScale THEN t0
                      ELSE ev.adjustedBurst * TokenScale
            admit0 == t1 >= ev.cost * TokenScale /\ n0 < ev.adjustedMax
        IN  /\ ev.tokens >= 0
            /\ ev.tokens >= t1 - (IF ev.allowed THEN ev.cost * TokenScale ELSE 0)
            /\ admit0 => ev.allowed

\* C8: default configuration, fresh bucket, no time passing: the k-th of the
\* sequential cost-c calls of an identity is admitted iff
\* k <= floor(burst after the region multiplier / c), and a denied call has
\* remaining = 0 and retry_after >= 1.
BurstAdmitsFloorBurstOverCost ==
    \A k \in Calls :
        (calls[k].pc = "done" /\ calls[k].tier \in KnownTiers) =>
            LET burst == FloorMul(RATE_LIMITS[calls[k].tier][calls[k].endpoint].burst,
                                  GEO_LIMITS(calls[k].countryCode))
            IN  /\ calls[k].result.allowed <=> (k <= burst \div calls[k].requestCost)
                /\ ~calls[k].result.allowed =>
                      /\ calls[k].result.remaining = 0
                      /\ calls[k].result.retryAfter >= 1

\* C9: a call whose cost exceeds the adjusted_burst of its policy is answered
\* allowed = false with retry_after > 0, whatever earlier calls did.
OverBurstCostDenied ==
    \A i \in Calls :
        (/\ calls[i].pc = "done"
         /\ calls[i].requestCost
               > AdjustedBurst(calls[i].etier, calls[i].endpoint, calls[i].countryCode,
                               FailOpenMultiplier)) =>
            /\ ~calls[i].result.allowed
            /\ calls[i].result.retryAfter > 0

\* C10: every returned decision has retry_after = 0 when allowed = true and
\* retry_after >= 1 when allowed = false, whichever path produced it.
RetryAfterMatchesAllowed ==
    \A i \in Calls :
        (calls[i].pc = "done" /\ calls[i].result.returned = "decision") =>
            IF calls[i].result.allowed
            THEN calls[i].result.retryAfter = 0
            ELSE calls[i].result.retryAfter >= 1

\* C10 witness: the fallback path denies a cost-5 request while at least one
\* whole token is in the bucket
FallbackDeniesWithTokenLeft ==
    \E i \in Calls :
        /\ calls[i].pc = "done"
        /\ calls[i].path = "fallback"
        /\ ~calls[i].result.allowed
        /\ calls[i].requestCost = 5
        /\ ev.kind = "fallback" /\ ev.call = i /\ ev.tokens >= TokenScale

\* C11: a call denied while count >= adjusted_max (every call when
\* adjusted_max = 0) gets retry_after = window_seconds of the policy.
QuotaDenialRetriesAfterWindow ==
    \A i \in Calls :
        (/\ calls[i].pc = "done"
         /\ calls[i].result.returned = "decision"
         /\ ~calls[i].result.allowed
         /\ ev.call = i
         /\ ev.count >= ev.adjustedMax) =>
            calls[i].result.retryAfter = ev.window

\* C12: every entry of every engine's local decision cache holds a decision
\* with allowed = true.
CacheHoldsOnlyAllows ==
    \A e \in Engines :
        \A key \in DOMAIN cache[e] : cache[e][key].value.allowed

\* C12 witness: the evaluator has denied a call of a frontend whose cache
\* stays empty, while the other frontend holds a cached admission
DenialNextToCachedAllow ==
    \E i \in Calls :
        /\ calls[i].pc = "done"
        /\ calls[i].path = "atomic"
        /\ ~calls[i].result.allowed
        /\ cache[calls[i].engine] = <<>>
        /\ \E e \in Engines : cache[e] # <<>>

CachedAllowIsStoreAllow ==
    \A i \in Calls :
        (calls[i].pc = "done" /\ calls[i].path = "cache" /\ calls[i].result.allowed) =>
            LET c      == calls[i]
                now    == NowSeconds(c.engine, clock)
                ssMult == IF Present(store, clock, slowStartKey(c.userId, c.endpoint))
                          THEN SlowStartMultiplierAt(
                                   now, store[slowStartKey(c.userId, c.endpoint)].v)
                          ELSE SlowStartStages[1]
            IN  LuaScript(BucketView(store, clock, c.userId, c.endpoint), now,
                          AdjustedMax(c.etier, c.endpoint, c.countryCode, ssMult),
                          AdjustedBurst(c.etier, c.endpoint, c.countryCode, ssMult),
                          RATE_LIMITS[c.etier][c.endpoint].window,
                          c.requestCost).allowed

\* C15: when no call is in flight, the analytics counters of the run's
\* (endpoint, tier, region) on each engine equal the decisions that engine
\* has returned: total = decisions, allowed = allows, denied = denials.
AnalyticsCountEveryDecision ==
    Quiet =>
        \A e \in Engines :
            LET returned == {i \in Calls : /\ calls[i].pc = "done"
                                           /\ calls[i].engine = e
                                           /\ calls[i].result.returned = "decision"}
                allows   == {i \in returned : calls[i].result.allowed}
                key      == <<calls[1].endpoint, calls[1].etier, calls[1].countryCode>>
                stat     == IF key \in DOMAIN hits[e] THEN hits[e][key]
                            ELSE [allowed |-> 0, denied |-> 0, totalRequests |-> 0]
            IN  /\ stat.totalRequests = Cardinality(returned)
                /\ stat.allowed = Cardinality(allows)
                /\ stat.denied = Cardinality(returned \ allows)

\* C16: with logging enabled and no call in flight, every denial an engine
\* has returned, from the atomic or from the fallback evaluator, has its
\* rate_limit_exceeded event in the engine's audit log: the log holds at
\* least as many of these events as denials were returned.
EveryDenialIsLogged ==
    Quiet =>
        \A e \in Engines :
            LET denials == {i \in Calls : /\ calls[i].pc = "done"
                                          /\ calls[i].engine = e
                                          /\ calls[i].result.returned = "decision"
                                          /\ ~calls[i].result.allowed}
                logged  == {n \in 1..Len(events[e]) :
                               events[e][n].type = "rate_limit_exceeded"}
            IN  Cardinality(logged) >= Cardinality(denials)

\* C17: new identity, default stages, rapid sequential calls of cost 1: the
\* k-th call is admitted iff k <= floor(burst * stages[0]), and once the calls
\* have returned the audit log holds one new_user event and one
\* rate_limit_exceeded event per denied call.
SlowStartAdmitsStageZeroBurst ==
    (Quiet /\ started > 0 /\ calls[1].requestCost = 1 /\ calls[1].tier \in KnownTiers) =>
        LET c       == calls[1]
            e       == c.engine
            burst   == AdjustedBurst(c.tier, c.endpoint, c.countryCode, SlowStartStages[1])
            denials == {k \in Calls : calls[k].pc = "done" /\ ~calls[k].result.allowed}
            typed(t) == {n \in 1..Len(events[e]) : events[e][n].type = t}
        IN  /\ \A k \in Calls :
                  calls[k].pc = "done" => (calls[k].result.allowed <=> k <= burst)
            /\ Cardinality(typed("new_user")) = 1
            /\ Cardinality(typed("rate_limit_exceeded")) = Cardinality(denials)

\* C18: when the eval throws and a read of the fallback throws too, the call
\* returns allowed = true, remaining = unbounded, retry_after = 0, and no step
\* of the call from the failed eval to the return changes the store.
ReadFailureFailsOpen ==
    [][\A i \in Calls :
          (/\ calls[i].evals = 0
           /\ calls[i].pc \in {"eval", "fb_get_tokens", "fb_get_last", "fb_get_count"}
           /\ calls'[i].pc \in {"fb_get_tokens", "fb_get_last", "fb_get_count", "done"}
           /\ calls'[i].path \in {"none", "failopen"}) =>
              /\ store' = store
              /\ calls'[i].path = "failopen" =>
                    /\ calls'[i].result.returned = "decision"
                    /\ calls'[i].result.allowed
                    /\ calls'[i].result.remaining = Infinity
                    /\ calls'[i].result.retryAfter = 0
      ]_vars

\* C18 witness: the second call of a run fails open after its eval and a
\* fallback read have failed, on a bucket the first call has written
FailedOpenOnStoredBucket ==
    \E i \in Calls :
        /\ started = 2
        /\ calls[i].pc = "done"
        /\ calls[i].path = "failopen"
        /\ calls[i].evals = 0
        /\ Present(store, clock, tokenKey(calls[i].userId, calls[i].endpoint))

\* C19: on a bucket no other call touches, the fallback evaluator decides and
\* writes what the atomic evaluator would: on admission the same allowed flag,
\* remaining, tokens and count; on denial the same flag, and the three keys
\* are left as the script would leave them.
FallbackMatchesAtomic ==
    \A i \in Calls :
        LET c    == calls[i]
            lua  == LuaScript(BucketView(store, clock, "u1", "/api/checkout"),
                              ev.now, ev.adjustedMax, ev.adjustedBurst, ev.window, ev.cost)
            kept == LuaPersist(store, clock, "u1", "/api/checkout", ev.window, ev.now, lua)
        IN  /\ (ev.kind = "fallback" /\ ev.call = i /\ c.pc = "fb_set_tokens") =>
                  /\ lua.allowed
                  /\ ev.remaining = lua.remaining
                  /\ ev.tokens = lua.tokens
                  /\ ev.count = lua.count
            /\ (ev.kind = "fallback" /\ ev.call = i /\ c.pc = "done" /\ ~ev.allowed) =>
                  /\ ~lua.allowed
                  /\ \A k \in Keys : kept[k].v = store[k].v

\* C20: a call whose (tier, endpoint) has no policy returns an unconditional
\* allow in the step that makes it, with no store operation, and that step
\* changes neither the store nor the analytics counters, the cache or the
\* audit log.
NoPolicyChangesNothing ==
    [][\A i \in Calls :
          (/\ started' = started + 1
           /\ calls'[i] # calls[i]
           /\ ~HasEndpointConfig(calls'[i].etier, calls'[i].endpoint)) =>
              /\ calls'[i].pc = "done"
              /\ calls'[i].result.returned = "decision"
              /\ calls'[i].result.allowed
              /\ calls'[i].result.remaining = Infinity
              /\ calls'[i].result.retryAfter = 0
              /\ calls'[i].storeOps = 0 /\ calls'[i].evals = 0
              /\ store' = store /\ hits' = hits /\ cache' = cache /\ events' = events
              /\ ev' = ev
      ]_vars

\* C20 witness: a call for the unrated endpoint has returned on an engine
\* that holds a cached admission, analytics and audit events of a rated call
NoPolicyAfterRatedCall ==
    \E i \in Calls :
        /\ calls[i].pc = "done"
        /\ calls[i].path = "nopolicy"
        /\ calls[i].endpoint = UnratedEndpoint
        /\ cache[calls[i].engine] # <<>>
        /\ hits[calls[i].engine] # <<>>
        /\ events[calls[i].engine] # <<>>

\* C21: a call with a tier the registry does not list acts as the same call
\* with tier 'free': what it caches is cached as a 'free' decision, and made
\* right after an admission of the same identity and endpoint it is answered
\* as a 'free' call is, with the admission's decision and no store operation.
UnknownTierActsAsFree ==
    /\ \A e \in Engines : \A key \in DOMAIN cache[e] : key[3] \in KnownTiers
    /\ \A i, j \in Calls :
          (/\ i < j
           /\ calls[i].pc = "done" /\ calls[i].path = "atomic" /\ calls[i].result.allowed
           /\ calls[j].pc = "done" /\ calls[j].tier \notin KnownTiers) =>
              /\ calls[j].result = calls[i].result
              /\ calls[j].storeOps = 0

LogIsBoundedFifo ==
    [][ \A e \in Engines :
          LET old == events[e]
              new == events'[e]
          IN  /\ Len(new) <= options.maxLogEvents
              /\ (e = 1 /\ started' = started + 1) =>
                    IF Len(old) < options.maxLogEvents
                    THEN /\ Len(new) = Len(old) + 1
                         /\ SubSeq(new, 1, Len(old)) = old
                    ELSE /\ Len(new) = Len(old)
                         /\ SubSeq(new, 1, Len(new) - 1) = Tail(old)
      ]_vars

\* C23 witness: more events were appended than a log of two events holds, and
\* the log holds two different events
LogHasEvicted ==
    /\ options.maxLogEvents = 2
    /\ started > 3
    /\ Len(events[1]) = 2
    /\ events[1][1].userId = "u1" /\ events[1][2].userId = "u2"

\* C24: with logging enabled, every write of the configuration registry
\* appends one configuration_change event to the audit log.
ConfigChangeIsLogged ==
    [][ (options.loggingEnabled /\ options'.config # options.config) =>
           \E e \in Engines :
              /\ Len(events'[e]) = Len(events[e]) + 1
              /\ events'[e][Len(events'[e])].type = "configuration_change"
      ]_vars

\* C25: replacing the policy of one (tier, endpoint) changes that policy only
\* and no stored bucket; the next store evaluation of a bucket of that
\* endpoint runs with the window, max and burst of the registry as it is now,
\* on the tokens, last refill and count that are stored, and writes keys of
\* that bucket only.
ReplacedPolicyIsUsed ==
    [][ /\ options'.config # options.config =>
              /\ store' = store
              /\ \E tier \in KnownTiers, endpoint \in RatedEndpoints :
                    \A t \in KnownTiers, ep \in RatedEndpoints :
                       <<t, ep>> # <<tier, endpoint>> =>
                          options'.config[t][ep] = options.config[t][ep]
        /\ \A i \in Calls :
              (calls[i].pc = "eval" /\ calls'[i].pc # "eval") =>
                 LET c == calls[i]
                     p == options.config[c.etier][c.endpoint]
                     geo == GEO_LIMITS(c.countryCode)
                     newMax == FloorMul(FloorMul(p.max, geo), c.ssMult)
                     newBurst == FloorMul(FloorMul(p.burst, geo), c.ssMult)
                     b == BucketView(store, clock, c.userId, c.endpoint)
                     r == LuaScript(b, c.now, newMax, newBurst, p.window, c.requestCost)
                 IN  /\ ev'.call = i /\ ev'.kind = "lua"
                     /\ ev'.pre = b
                     /\ ev'.window = p.window
                     /\ ev'.adjustedMax = newMax
                     /\ ev'.adjustedBurst = newBurst
                     /\ ev'.allowed = r.allowed
                     /\ ev'.tokens = r.tokens
                     /\ ev'.count = b.count + (IF r.allowed THEN c.requestCost ELSE 0)
                     /\ store'[tokenKey(c.userId, c.endpoint)].v = r.tokens
                     /\ \A k \in Keys :
                           store'[k] # store[k] =>
                              k[1] = c.userId /\ k[2] = c.endpoint
      ]_vars

\* C25 witness: the policy of free /api/profile has been replaced, that of
\* free /api/checkout has not, and the last evaluation ran with the limits of
\* the new policy on a profile bucket that was charged under the old policy
\* and still held more tokens than the new burst
EvaluatedUnderNewPolicy ==
    /\ options.config["free"]["/api/profile"] = Policy(3600, 30, 5)
    /\ options.config["free"]["/api/checkout"] = RATE_LIMITS["free"]["/api/checkout"]
    /\ ev.kind = "lua"
    /\ calls[ev.call].endpoint = "/api/profile"
    /\ ev.pre.hasCount /\ ev.pre.count > 0
    /\ ev.adjustedMax = FloorMul(30, SlowStartStages[1])
    /\ ev.adjustedBurst = FloorMul(5, SlowStartStages[1])
    /\ ev.pre.tokens > ev.adjustedBurst * TokenScale
    /\ ev.allowed

\* C26: every decision a call returns carries a cost field equal to the cost
\* argument of that call, whether it comes from the evaluator, the cache or
\* the fallback.
DecisionEchoesCost ==
    \A i \in Calls :
        (calls[i].pc = "done" /\ calls[i].result.returned = "decision") =>
            calls[i].result.cost = calls[i].requestCost

\* C27: the remaining of a decision produced by a bucket evaluation, admitted
\* or denied, is the floor of the tokens that evaluation stored.
RemainingIsFloorOfStored ==
    \A i \in Calls :
        (/\ calls[i].pc = "done"
         /\ calls[i].path \in {"atomic", "fallback"}
         /\ calls[i].result.returned = "decision"
         /\ ev.kind # "none" /\ ev.call = i) =>
            calls[i].result.remaining = ev.tokens \div TokenScale

\* C28: a denial by the atomic evaluator leaves the count as it was and takes
\* no token: the stored tokens are the refilled value min(adjusted_burst,
\* tokens + refill); on admission and on denial alike the stored last_refill
\* is now and the three keys expire window seconds after the evaluation.
DenialOnlyRefills ==
    ev.kind = "lua" =>
        LET t0    == IF ev.pre.hasTokens THEN ev.pre.tokens
                     ELSE ev.adjustedBurst * TokenScale
            lr    == IF ev.pre.hasLast THEN ev.pre.last ELSE ev.now
            n0    == IF ev.pre.hasCount THEN ev.pre.count ELSE 0
            grown == t0 + (((ev.now - lr) * ev.adjustedMax * TokenScale) \div ev.window)
            t1    == IF grown < ev.adjustedBurst * TokenScale THEN grown
                     ELSE ev.adjustedBurst * TokenScale
            u     == calls[ev.call].userId
            ep    == calls[ev.call].endpoint
        IN  /\ store[lastRefillKey(u, ep)].v = ev.now
            /\ \A k \in {tokenKey(u, ep), lastRefillKey(u, ep), countKey(u, ep)} :
                  store[k].exp = clock + ev.window
            /\ ~ev.allowed =>
                  /\ store[countKey(u, ep)].v = n0
                  /\ store[tokenKey(u, ep)].v = t1

\* C28 witness: the evaluator denied a request on a stored bucket some time
\* after its last refill, and the stored tokens have grown
DeniedAfterRefill ==
    /\ ev.kind = "lua" /\ ~ev.allowed
    /\ ev.pre.hasTokens /\ ev.pre.hasLast /\ ev.pre.hasCount
    /\ ev.now > ev.pre.last
    /\ ev.pre.count > 0
    /\ store[tokenKey("u1", "/api/checkout")].v > ev.pre.tokens
    /\ store[countKey("u1", "/api/checkout")].v = ev.pre.count

\* C29: denied evaluations do not change what a bucket has accrued. When the
\* first call was admitted by the evaluator at time t1 and no later call was,
\* the tokens stored by the last evaluation, at time t2, are min(adjusted
\* burst, tokens(t1) + (t2 - t1) * adjusted_max / window), however many denied
\* evaluations split the interval.
DeniedEvaluationsSplitNothing ==
    LET burst == AdjustedBurst("free", "/api/checkout", "IN", SlowStartStages[1])
        max   == AdjustedMax("free", "/api/checkout", "IN", SlowStartStages[1])
        win   == RATE_LIMITS["free"]["/api/checkout"].window
        at1   == (burst - calls[1].requestCost) * TokenScale
        t2    == store[lastRefillKey("u1", "/api/checkout")].v
        whole == at1 + ((t2 - Epoch) * max * TokenScale) \div win
    IN  (/\ calls[1].pc = "done" /\ calls[1].path = "atomic" /\ calls[1].result.allowed
         /\ \A j \in Calls :
               (j > 1 /\ calls[j].pc = "done" /\ calls[j].path = "atomic") =>
                  ~calls[j].result.allowed) =>
            store[tokenKey("u1", "/api/checkout")].v =
               IF whole < burst * TokenScale THEN whole ELSE burst * TokenScale

\* C29 witness: after the admission at t1 two evaluations were denied, 2 s and
\* 4 s later, and the bucket holds what 4 s accrue
TwoDenialsSplitFourSeconds ==
    /\ calls[1].pc = "done" /\ calls[1].path = "atomic" /\ calls[1].result.allowed
    /\ calls[2].pc = "done" /\ calls[2].path = "atomic" /\ ~calls[2].result.allowed
    /\ calls[3].pc = "done" /\ calls[3].path = "atomic" /\ ~calls[3].result.allowed
    /\ ev.kind = "lua" /\ ev.call = 3
    /\ ev.pre.last = Epoch + 2
    /\ ev.now = Epoch + 4
    /\ store[tokenKey("u1", "/api/checkout")].v > ev.pre.tokens
    /\ ev.pre.tokens > 0

\* C30: while a bucket is stored its count never decreases, and once the
\* calls on it have returned the count is the sum of the costs of the calls
\* admitted on the bucket by the atomic path and by the fallback path, in
\* every interleaving of the two.
CountIsSumOfAdmitted ==
    [][ LET k == countKey("u1", "/api/profile")
            RECURSIVE AdmittedOnBucket(_)
            AdmittedOnBucket(n) ==
                IF n = 0 THEN 0
                ELSE AdmittedOnBucket(n - 1)
                     + (IF /\ calls'[n].pc = "done"
                           /\ calls'[n].path \in {"atomic", "fallback"}
                           /\ calls'[n].result.allowed
                        THEN calls'[n].requestCost ELSE 0)
        IN  /\ (Present(store, clock, k) /\ Present(store', clock', k)) =>
                  store'[k].v >= store[k].v
            /\ (Quiet' /\ Present(store', clock', k)) =>
                  store'[k].v = AdmittedOnBucket(MaxInFlight)
      ]_vars

\* C31 as stated: the multiplier of a stored marker is
\* stages[min(len - 1, floor(age / (duration / len)))] for every now, and it
\* never decreases as the identity ages.
StageIsFloorOfAge ==
    LET c      == calls[1]
        stages == options.slowStartStages
        len    == Len(stages)
        age    == c.now - store[slowStartKey(c.userId, c.endpoint)].v
        Index(a) == Min2(len - 1, (a * len) \div options.slowStartDuration)
    IN  (c.pc = "eval" /\ c.createdAt = 0) =>
            /\ Index(age) + 1 \in DOMAIN stages
            /\ c.ssMult = stages[Index(age) + 1]
            /\ \A a \in MarkerAges :
                  (a <= age /\ Index(a) + 1 \in DOMAIN stages) =>
                     stages[Index(a) + 1] <= c.ssMult

\* C31: the multiplier of a stored marker is stages[min(len - 1, max(0,
\* floor(age / (duration / len))))]: a marker whose start is later than now
\* (written by a frontend whose clock is ahead) is in stage 0; the stage index
\* never decreases with the age, and neither does the multiplier when the
\* stages do not decrease.
StageIsClampedFloorOfAge ==
    LET c      == calls[1]
        stages == options.slowStartStages
        len    == Len(stages)
        age    == c.now - store[slowStartKey(c.userId, c.endpoint)].v
        Index(a) == Min2(len - 1, Max2(0, (a * len) \div options.slowStartDuration))
    IN  (c.pc = "eval" /\ c.createdAt = 0) =>
            /\ c.ssMult = stages[Index(age) + 1]
            /\ \A a \in MarkerAges : a <= age => Index(a) <= Index(age)
            /\ (\A n \in 1..(len - 1) : stages[n] <= stages[n + 1]) =>
                  \A a \in MarkerAges : a <= age => stages[Index(a) + 1] <= c.ssMult

\* C31 witness: a marker in the middle stage of the default ramp, found by a
\* frontend other than the one that wrote it
MarkerInMiddleStage ==
    /\ calls[1].pc = "eval" /\ calls[1].createdAt = 0
    /\ options.slowStartStages = SlowStartStages
    /\ calls[1].engine = 2
    /\ calls[1].now - store[slowStartKey("u1", "/api/checkout")].v = 28800 + SkewSeconds
    /\ calls[1].ssMult = SlowStartStages[2]

\* C32: when calls for the same new identity and endpoint race, the slow-start
\* marker keeps the value and the expiry of its first write; a later write
\* changes only the audit log, by one more new_user event.
MarkerKeepsFirstWrite ==
    [][ LET k == slowStartKey("u1", "/api/checkout")
        IN  Present(store, clock, k) => store'[k] = store[k]
      ]_vars

\* C33: when the get of the slow-start marker or the setex that creates it
\* fails, the call goes on to the bucket evaluation with multiplier 1.0, that
\* is with max and burst scaled by the region multiplier only, and neither the
\* store nor the audit log changes.
SlowStartFailsOpen ==
    [][\A i \in Calls :
          LET c  == calls[i]
              d  == calls'[i]
              k  == slowStartKey(c.userId, c.endpoint)
              p  == options.config[c.etier][c.endpoint]
              failedGet == /\ c.pc = "ss_get" /\ d.pc = "eval"
                           /\ \/ ~Present(store, clock, k)
                              \/ d.ssMult # SlowStartMultiplierAt(NowSeconds(c.engine, clock),
                                                                  store[k].v)
              failedSet == c.pc = "ss_set" /\ d.pc = "eval" /\ store'[k] = store[k]
          IN  /\ c.pc \in {"ss_get", "ss_set"} => d.pc \in {"ss_get", "ss_set", "eval"}
              /\ (failedGet \/ failedSet) =>
                    /\ d.ssMult = 10
                    /\ d.adjustedMax = FloorMul(p.max, GEO_LIMITS(c.countryCode))
                    /\ d.adjustedBurst = FloorMul(p.burst, GEO_LIMITS(c.countryCode))
                    /\ store' = store
                    /\ events' = events
      ]_vars

\* C33 witness: the setex of a new identity's marker has failed; the call is
\* at the evaluation with the limits of the region only, there is no marker
\* and no new_user event
EvaluatesWithoutMarker ==
    \E i \in Calls :
        /\ calls[i].pc = "eval"
        /\ calls[i].createdAt # 0
        /\ ~Present(store, clock, slowStartKey("u1", "/api/checkout"))
        /\ calls[i].ssMult = 10
        /\ calls[i].adjustedBurst = 4
        /\ events[1] = <<>>

\* C34: the limits passed to the evaluator are floor(max * region *
\* slow-start) and floor(burst * region * slow-start), one floor on the full
\* product (multipliers in tenths: the product is in hundredths); a region
\* absent from the table has the DEFAULT multiplier 1.0.
LimitsAreOneFloor ==
    \A i \in Calls :
        calls[i].pc = "eval" =>
            LET c   == calls[i]
                p   == options.config[c.etier][c.endpoint]
                geo == IF c.countryCode \in {"US", "EU", "CN", "IN"}
                       THEN GEO_LIMITS(c.countryCode) ELSE 10
            IN  /\ c.adjustedMax = (p.max * geo * c.ssMult) \div 100
                /\ c.adjustedBurst = (p.burst * geo * c.ssMult) \div 100

\* C35: a call denied while count < adjusted_max, by the atomic path or by the
\* fallback path, gets retry_after = max(1, ceil((cost - tokens_after) *
\* window / adjusted_max)), tokens_after being the tokens of that call's
\* evaluation.
RetryAfterIsCostDeficit ==
    \A i \in Calls :
        (/\ calls[i].pc = "done"
         /\ calls[i].path \in {"atomic", "fallback"}
         /\ calls[i].result.returned = "decision"
         /\ ~calls[i].result.allowed
         /\ ev.call = i
         /\ ev.count < ev.adjustedMax) =>
            LET deficit == ev.cost * TokenScale - ev.tokens
                num     == deficit * ev.window
                den     == ev.adjustedMax * TokenScale
                ceil    == (num + den - 1) \div den
            IN  calls[i].result.retryAfter = IF ceil > 1 THEN ceil ELSE 1

\* C36: the three keys of a bucket are written together with the same TTL:
\* once the calls on a bucket have returned its tokens, last_refill and count
\* expire at the same time, one window after the last write; and an
\* evaluation that finds a stored value finds all three, less than one
\* window (by the clocks of the frontends) after the bucket was last written:
\* after a full idle window it finds no entry and starts from tokens =
\* adjusted_burst, count = 0.
BucketKeysShareTTL ==
    /\ Quiet =>
          \A u \in Users, ep \in RatedEndpoints :
             /\ store[tokenKey(u, ep)].exp = store[lastRefillKey(u, ep)].exp
             /\ store[tokenKey(u, ep)].exp = store[countKey(u, ep)].exp
    /\ (ev.kind = "lua" /\ (ev.pre.hasTokens \/ ev.pre.hasCount)) =>
          /\ ev.pre.hasTokens /\ ev.pre.hasLast /\ ev.pre.hasCount
          /\ ev.now - ev.pre.last < ev.window + SkewSeconds

\* C37: a call that is not answered from the cache applies at most one
\* evaluation to its bucket; once the atomic evaluator has denied it, it
\* returns allowed = false whatever the store does afterwards.
OneEvaluationPerCall ==
    /\ \A i \in Calls : calls[i].evals <= 1
    /\ \A i \in Calls :
          (calls[i].pc = "done" /\ ev.kind = "lua" /\ ev.call = i /\ ~ev.allowed) =>
             /\ calls[i].result.returned = "decision"
             /\ ~calls[i].result.allowed

\* C38: when a call is denied with retry_after = r and the same call is
\* repeated r seconds later, no other call on the bucket in between, the
\* repeated call is admitted.
RetryAfterWaitIsAdmitted ==
    \A i \in Calls :
        (/\ i < MaxInFlight
         /\ calls[i].pc = "done" /\ calls[i].path = "atomic"
         /\ ~calls[i].result.allowed
         /\ ev.kind = "lua" /\ ev.call = i + 1
         /\ ev.pre.hasLast
         /\ ev.now - ev.pre.last = calls[i].result.retryAfter) =>
            ev.allowed

\* C39: clearing the cache for an identity removes the entries of that
\* identity and no other: every step that changes a cache removes exactly the
\* entries of one identity, the entries of all others staying as they were.
ClearRemovesOneIdentity ==
    [][\A e \in Engines :
          cache'[e] # cache[e] =>
             \E userId \in ClearUsers :
                /\ DOMAIN cache'[e] = {k \in DOMAIN cache[e] : k[1] # userId}
                /\ \A k \in DOMAIN cache'[e] : cache'[e][k] = cache[e][k]
      ]_vars

\* C40: for every bucket state and every argument tuple (now, adjusted_max,
\* adjusted_burst, window, cost), the script execution of the in-process store
\* returns the same (allowed, remaining, count) and leaves the same stored
\* bucket values as the Lua script the engine sends.
MockScriptMatchesLua ==
    ev.kind = "mock" =>
       LET r == LuaScript(ev.pre, ev.now, ev.adjustedMax, ev.adjustedBurst,
                          ev.window, ev.cost)
       IN  /\ ev.allowed = r.allowed
           /\ ev.remaining = r.remaining
           /\ ev.count = r.count
           /\ ev.tokens = r.tokens

=============================================================================
